---------------------------- MODULE Spec2Model ----------------------------
(***************************************************************************)
(* The real-time synchronisation client of the hotel operations dashboard: *)
(* the useWebSocket hook (frontend/src/hooks/useWebSocket.ts), the two     *)
(* store slices it dispatches to (requestsSlice, feedbackSlice) and the    *)
(* Dashboard's snapshot fetch.                                             *)
(*                                                                         *)
(* One component lifetime is modelled: the hook's refs and state are       *)
(* allocated when the component is constructed, the effect of line 25 runs *)
(* at mount and again at every change of `token`, and its cleanup runs     *)
(* before each re-run and at unmount.  Every run of the effect with a      *)
(* truthy token is an "effect instance" with its own closure variables     *)
(* isConnecting and isCleaning; the refs are shared by all instances.      *)
(* The browser is the environment: it delivers open, error+close, close    *)
(* and message events of a WebSocket, fires timers and resolves the        *)
(* snapshot fetch, one task at a time.                                     *)
(***************************************************************************)
EXTENDS Integers, Sequences, FiniteSets, TLC

\* ---------------------------------------------------------------- constants
MAX_RETRY_ATTEMPTS == 3
RETRY_DELAY == 3000

\* Bounds of the model: sockets and effect instances ever created, the
\* entries the two collections of the store hold together, and the frames in
\* flight from the server.
MaxSockets == 3
MaxInsts == 2
MaxItems == 2
MaxWire == 2

\* A null ref.  Socket and timer handles are positive numbers (a browser's
\* timer ids start at 1), so 0 stands for null/undefined and is falsy.
NullRef == 0

NullToken == "<null>"
TokenValues == {NullToken, "", "a", "b"}
\* !token
Falsy(t) == t \in {NullToken, ""}

NoError == "<none>"
ErrorMessage == "Unable to establish real-time connection. Please check your internet connection and refresh the page."

CONNECTING == "CONNECTING"
OPEN == "OPEN"
CLOSING == "CLOSING"
CLOSED == "CLOSED"

VARIABLES
    phase,                 \* "init" | "mounted" | "unmounted": the component
    token,                 \* the hook's argument at the last render
    urlOk,                 \* whether new WebSocket(url) accepts the configured url
    wsRef,                 \* wsRef.current: a socket handle or NullRef
    reconnectTimeoutRef,   \* reconnectTimeoutRef.current: a timer id or NullRef
    retryCountRef,         \* retryCountRef.current
    hasShownErrorRef,      \* hasShownErrorRef.current
    connectionError,       \* the connectionError state: NoError or the notice
    effectCleanup,         \* the instance whose cleanup React holds, or NullRef
    insts,                 \* effect instances: [token, isConnecting, isCleaning]
    sockets,               \* sockets ever created: [inst, readyState, events]
    timers,                \* timers ever set: [inst, delay, state]
    requests,              \* state.requests.items of the store
    feedback,              \* state.feedback.items of the store
    fetch,                 \* Dashboard's fetchData: "idle" | "pending" | "done" | "failed"
    liveApplied,           \* history: a frame of the live connection has changed the store
    uncaught,              \* history: an exception has left ws.onmessage uncaught
    serverVer,             \* the server's version (status) of request 1
    wire,                  \* frames the server has broadcast to the socket, not yet delivered
    patch,                 \* handleMarkComplete's PATCH: [state, request, response]
    last                   \* the handler that ran last: [op, id], and the frame of a message

connVars == <<phase, token, urlOk, wsRef, reconnectTimeoutRef, retryCountRef,
              hasShownErrorRef, connectionError, effectCleanup, insts, sockets,
              timers>>
storeVars == <<requests, feedback, liveApplied, uncaught>>
staffVars == <<serverVer, wire, patch>>
vars == <<connVars, storeVars, fetch, staffVars, last>>

\* ------------------------------------------------------------ the hook state
\* The mutable state the handlers read and write, as one record, so that a
\* handler is a function from state to state and handlers compose in order.
Cur ==
    [wsRef |-> wsRef, timeoutRef |-> reconnectTimeoutRef, retry |-> retryCountRef,
     shown |-> hasShownErrorRef, err |-> connectionError, eff |-> effectCleanup,
     insts |-> insts, sockets |-> sockets, timers |-> timers]

Commit(h) ==
    /\ wsRef' = h.wsRef
    /\ reconnectTimeoutRef' = h.timeoutRef
    /\ retryCountRef' = h.retry
    /\ hasShownErrorRef' = h.shown
    /\ connectionError' = h.err
    /\ effectCleanup' = h.eff
    /\ insts' = h.insts
    /\ sockets' = h.sockets
    /\ timers' = h.timers

\* setConnectionError(v): React drops a state update of an unmounted component.
setConnectionError(h, v) ==
    IF phase = "mounted" \/ phase = "init" THEN [h EXCEPT !.err = v] ELSE h

\* A setTimeout whose id the caller does not keep (the assignment to
\* reconnectTimeoutRef.current of lines 114 and 127 left out).
setTimeoutUntracked(h, i) ==
    [h EXCEPT !.timers = Append(@, [inst |-> i, delay |-> RETRY_DELAY, state |-> "pending"])]

\* window.setTimeout(connect, RETRY_DELAY) by instance i; returns the new id,
\* which the caller stores in reconnectTimeoutRef.current.
setTimeout(h, i) ==
    [h EXCEPT !.timers = Append(@, [inst |-> i, delay |-> RETRY_DELAY, state |-> "pending"]),
              !.timeoutRef = Len(h.timers) + 1]

\* clearTimeout(id): cancels a pending timer, ignores any other id.
clearTimeout(h, id) ==
    IF id \in 1..Len(h.timers) /\ h.timers[id].state = "pending"
    THEN [h EXCEPT !.timers[id].state = "cleared"]
    ELSE h

showConnectionError(h) ==
    IF ~h.shown
    THEN setConnectionError([h EXCEPT !.shown = TRUE], ErrorMessage)
    ELSE h

\* connect() without its in-flight guard (lines 42-45 left out).
connectNoGuard(h, i) ==
    LET h1 == [h EXCEPT !.insts[i].isConnecting = TRUE] IN
    IF h1.retry >= MAX_RETRY_ATTEMPTS
    THEN showConnectionError(h1)
    ELSE IF urlOk
    THEN [h1 EXCEPT !.sockets = Append(@, [inst |-> i, readyState |-> CONNECTING,
                                           events |-> <<>>]),
                    !.wsRef = Len(h1.sockets) + 1]
    ELSE LET h2 == [h1 EXCEPT !.insts[i].isConnecting = FALSE,
                              !.retry = @ + 1] IN
         IF h2.retry < MAX_RETRY_ATTEMPTS /\ ~h2.insts[i].isCleaning
         THEN setTimeout(h2, i)
         ELSE showConnectionError(h2)

\* connect() of effect instance i (lines 41-131).  The handlers it binds are
\* the operators onopen, onmessage, onerror, onclose below.
connect(h, i) ==
    IF h.insts[i].isConnecting
    THEN h
    ELSE LET h1 == [h EXCEPT !.insts[i].isConnecting = TRUE] IN
         IF h1.retry >= MAX_RETRY_ATTEMPTS
         THEN showConnectionError(h1)
         ELSE IF urlOk
         THEN [h1 EXCEPT !.sockets = Append(@, [inst |-> i, readyState |-> CONNECTING,
                                                events |-> <<>>]),
                         !.wsRef = Len(h1.sockets) + 1]
         ELSE \* new WebSocket(...) threw: the catch block
              LET h2 == [h1 EXCEPT !.insts[i].isConnecting = FALSE,
                                   !.retry = @ + 1] IN
              IF h2.retry < MAX_RETRY_ATTEMPTS /\ ~h2.insts[i].isCleaning
              THEN setTimeout(h2, i)
              ELSE showConnectionError(h2)

\* ws.onopen that forgets to reset the retry count (line 62 left out).
onopenKeepsCount(h, k) ==
    LET i == h.sockets[k].inst IN
    setConnectionError([h EXCEPT !.insts[i].isConnecting = FALSE,
                                 !.shown = FALSE], NoError)

\* ws.onopen of socket k
onopen(h, k) ==
    LET i == h.sockets[k].inst IN
    setConnectionError([h EXCEPT !.insts[i].isConnecting = FALSE,
                                 !.retry = 0,
                                 !.shown = FALSE], NoError)

\* A ws.onerror that surfaces the notice at once.
onerrorShows(h, k) ==
    LET i == h.sockets[k].inst IN
    showConnectionError([h EXCEPT !.insts[i].isConnecting = FALSE, !.retry = @ + 1])

\* ws.onerror of socket k
onerror(h, k) ==
    LET i == h.sockets[k].inst IN
    [h EXCEPT !.insts[i].isConnecting = FALSE, !.retry = @ + 1]

\* A ws.onclose without its else branch (lines 115-118 left out): when the
\* budget is used up it neither retries nor surfaces the notice.
oncloseSilent(h, k) ==
    LET i == h.sockets[k].inst
        h1 == [h EXCEPT !.insts[i].isConnecting = FALSE] IN
    IF h1.insts[i].isCleaning
    THEN h1
    ELSE LET h2 == [h1 EXCEPT !.retry = @ + 1] IN
         IF h2.retry < MAX_RETRY_ATTEMPTS
         THEN setTimeout(h2, i)
         ELSE h2

\* A ws.onclose that compares with <= instead of < (line 111).
onclosePermissive(h, k) ==
    LET i == h.sockets[k].inst
        h1 == [h EXCEPT !.insts[i].isConnecting = FALSE] IN
    IF h1.insts[i].isCleaning
    THEN h1
    ELSE LET h2 == [h1 EXCEPT !.retry = @ + 1] IN
         IF h2.retry <= MAX_RETRY_ATTEMPTS
         THEN setTimeout(h2, i)
         ELSE showConnectionError(h2)

\* ws.onclose of socket k
onclose(h, k) ==
    LET i == h.sockets[k].inst
        h1 == [h EXCEPT !.insts[i].isConnecting = FALSE] IN
    IF h1.insts[i].isCleaning
    THEN h1
    ELSE LET h2 == [h1 EXCEPT !.retry = @ + 1] IN
         IF h2.retry < MAX_RETRY_ATTEMPTS
         THEN setTimeout(h2, i)
         ELSE showConnectionError(h2)

\* A cleanup that closes the current socket whatever its state and counts the
\* close as a failed attempt.
cleanupCountsClose(h, i) ==
    LET h1 == [h EXCEPT !.insts[i].isCleaning = TRUE]
        h2 == IF h1.timeoutRef # NullRef THEN clearTimeout(h1, h1.timeoutRef) ELSE h1 IN
    IF h2.wsRef # NullRef
    THEN [h2 EXCEPT !.sockets[h2.wsRef].readyState =
                        IF @ \in {CONNECTING, OPEN} THEN CLOSING ELSE @,
                    !.retry = @ + 1]
    ELSE h2

\* A cleanup that forgets the retry timer (lines 137-139 left out).
cleanupKeepsTimer(h, i) ==
    LET h1 == [h EXCEPT !.insts[i].isCleaning = TRUE] IN
    IF h1.wsRef # NullRef /\ h1.sockets[h1.wsRef].readyState = OPEN
    THEN [h1 EXCEPT !.sockets[h1.wsRef].readyState = CLOSING]
    ELSE h1

\* The function the effect returns (lines 135-144), for instance i.
cleanup(h, i) ==
    LET h1 == [h EXCEPT !.insts[i].isCleaning = TRUE]
        h2 == IF h1.timeoutRef # NullRef THEN clearTimeout(h1, h1.timeoutRef) ELSE h1 IN
    IF h2.wsRef # NullRef /\ h2.sockets[h2.wsRef].readyState = OPEN
    THEN [h2 EXCEPT !.sockets[h2.wsRef].readyState = CLOSING]   \* ws.close()
    ELSE h2

\* The effect body (lines 25-134) run with token t.
effect(h, t) ==
    IF Falsy(t)
    THEN [h EXCEPT !.eff = NullRef]
    ELSE LET i == Len(h.insts) + 1
             h1 == [h EXCEPT !.insts = Append(@, [token |-> t, isConnecting |-> FALSE,
                                                  isCleaning |-> FALSE]),
                             !.eff = i] IN
         connect(h1, i)

\* React runs the previous effect's cleanup, if it returned one.
runCleanup(h) == IF h.eff # NullRef THEN cleanup(h, h.eff) ELSE h

\* ------------------------------------------------------------------ the store
\* A Request or Feedback record: its numeric identifier and the version of its
\* other fields (status, smart_response, ...) that the server sent.
Ids == {1, 2}
Versions == {1, 2}
Records == [id : Ids, ver : Versions]

\* The value of message.data when the frame's JSON object has no "data"
\* member.  `message.data as Request` is a compile-time cast: nothing checks
\* the value at run time.
Undefined == [undefined |-> TRUE]

\* r.id === id, for an entry r that is a record.
Matches(r, id) == r # Undefined /\ r.id = id

\* Array.prototype.findIndex(r => r.id === id) throws a TypeError when it
\* reaches an entry that is undefined before it finds a match.
findIndexThrows(items, id) ==
    \E n \in 1..Len(items) :
        /\ items[n] = Undefined
        /\ \A m \in 1..(n - 1) : ~Matches(items[m], id)

\* Array.prototype.findIndex(r => r.id === id): the 0-based index of the first
\* match, or -1.
findIndex(items, id) ==
    IF \E n \in 1..Len(items) : Matches(items[n], id)
    THEN (CHOOSE n \in 1..Len(items) :
             /\ Matches(items[n], id)
             /\ \A m \in 1..(n - 1) : ~Matches(items[m], id)) - 1
    ELSE -1

\* The reducer of updateRequest/updateFeedback throws: action.payload.id is
\* evaluated in the callback, so an undefined payload throws at the first
\* entry; a thrown reducer leaves the slice as it was.
updateThrows(items, payload) ==
    IF payload = Undefined THEN items # <<>> ELSE findIndexThrows(items, payload.id)

\* An addRequest that skips a payload whose identifier is already stored.
addRequestDedup(items, payload) ==
    IF \E n \in 1..Len(items) : payload # Undefined /\ Matches(items[n], payload.id)
    THEN items
    ELSE <<payload>> \o items

\* requestsSlice reducers
setRequests(items, payload) == payload
addRequest(items, payload) == <<payload>> \o items          \* unshift
updateRequest(items, payload) ==
    IF payload = Undefined THEN items       \* no entry: the callback never runs
    ELSE LET index == findIndex(items, payload.id) IN
         IF index # -1 THEN [items EXCEPT ![index + 1] = payload] ELSE items

\* feedbackSlice reducers
setFeedback(items, payload) == payload
addFeedback(items, payload) == <<payload>> \o items         \* unshift
updateFeedback(items, payload) ==
    IF payload = Undefined THEN items
    ELSE LET index == findIndex(items, payload.id) IN
         IF index # -1 THEN [items EXCEPT ![index + 1] = payload] ELSE items

\* An inbound text frame: <<"json", type, data>> is the text of the JSON object
\* {"type": type, "data": data}; <<"text", s>> is text that is not JSON.
MessageTypes == {"new_request", "request_updated", "new_feedback", "feedback_updated"}
Frames ==
    {<<"json", t, r>> : t \in MessageTypes \cup {"unknown_kind"}, r \in Records}
        \cup {<<"json", t, Undefined>> : t \in MessageTypes}
        \cup {<<"text", "ping">>}

\* JSON.parse(event.data): the message, or a SyntaxError.
JSONparse(raw) ==
    IF raw[1] = "json"
    THEN [threw |-> FALSE, type |-> raw[2], data |-> raw[3]]
    ELSE [threw |-> TRUE]

\* The try block of ws.onmessage (lines 68-85) applied to the store
\* <<requests, feedback>>: the store after the frame, and whether the block
\* threw (JSON.parse, or a reducer inside dispatch).
tryBlock(store, raw) ==
    LET message == JSONparse(raw) IN
    IF message.threw
    THEN [store |-> store, threw |-> TRUE]
    ELSE CASE message.type = "new_request" ->
                  [store |-> <<addRequest(store[1], message.data), store[2]>>,
                   threw |-> FALSE]
           [] message.type = "request_updated" ->
                  IF updateThrows(store[1], message.data)
                  THEN [store |-> store, threw |-> TRUE]
                  ELSE [store |-> <<updateRequest(store[1], message.data), store[2]>>,
                        threw |-> FALSE]
           [] message.type = "new_feedback" ->
                  [store |-> <<store[1], addFeedback(store[2], message.data)>>,
                   threw |-> FALSE]
           [] message.type = "feedback_updated" ->
                  IF updateThrows(store[2], message.data)
                  THEN [store |-> store, threw |-> TRUE]
                  ELSE [store |-> <<store[1], updateFeedback(store[2], message.data)>>,
                        threw |-> FALSE]
           [] OTHER -> [store |-> store, threw |-> FALSE]

\* ws.onmessage without its try/catch: what the body throws leaves the handler.
onmessageNoCatch(store, raw) ==
    [store |-> tryBlock(store, raw).store, uncaught |-> tryBlock(store, raw).threw]

\* ws.onmessage with a default case that takes any other message for a new
\* request.
onmessageDefaultAdds(store, raw) ==
    LET message == JSONparse(raw) IN
    IF ~message.threw /\ message.type \notin MessageTypes
    THEN [store |-> <<addRequest(store[1], message.data), store[2]>>, uncaught |-> FALSE]
    ELSE [store |-> tryBlock(store, raw).store, uncaught |-> FALSE]

\* ws.onmessage (lines 67-89): the catch block logs whatever the try block
\* threw, so nothing leaves the handler.
onmessage(store, raw) ==
    [store |-> tryBlock(store, raw).store, uncaught |-> FALSE]

\* What the snapshot endpoints can return: a collection keyed by identifier,
\* so no identifier twice.
RECURSIVE SeqsUpTo(_, _)
SeqsUpTo(S, n) ==
    IF n = 0 THEN {<<>>}
    ELSE LET shorter == SeqsUpTo(S, n - 1) IN
         shorter \cup {Append(q, x) : q \in {p \in shorter : Len(p) = n - 1}, x \in S}

NoDuplicateIds(items) ==
    \A m, n \in 1..Len(items) :
        (items[m] # Undefined /\ Matches(items[n], items[m].id)) => m = n

Snapshots == {q \in SeqsUpTo(Records, MaxItems) : NoDuplicateIds(q)}

\* The version of a request whose status is 'Completed' (version 1 is any
\* other status).
Completed == 2
\* What GET /api/requests returns: the server holds request 1.
ServerRequests == <<[id |-> 1, ver |-> serverVer]>>
\* No PATCH has been sent.
NoPatch == [state |-> "idle", request |-> Undefined, response |-> Undefined]

\* ------------------------------------------------------------------ actions
Init ==
    /\ phase = "init"
    /\ token = NullToken
    /\ urlOk \in BOOLEAN
    /\ wsRef = NullRef
    /\ reconnectTimeoutRef = NullRef
    /\ retryCountRef = 0
    /\ hasShownErrorRef = FALSE
    /\ connectionError = NoError
    /\ effectCleanup = NullRef
    /\ insts = <<>>
    /\ sockets = <<>>
    /\ timers = <<>>
    /\ requests = <<>>
    /\ feedback = <<>>
    /\ fetch = "idle"
    /\ liveApplied = FALSE
    /\ uncaught = FALSE
    /\ serverVer = 1
    /\ wire = <<>>
    /\ patch = NoPatch
    /\ last = [op |-> "init", id |-> 0]

\* Room for one more effect instance and one more socket.
CanStart(t) == Falsy(t) \/ (Len(insts) < MaxInsts /\ Len(sockets) < MaxSockets)

Mount(t) ==
    /\ phase = "init"
    /\ CanStart(t)
    /\ phase' = "mounted"
    /\ token' = t
    /\ Commit(effect(Cur, t))
    /\ fetch' = "pending"          \* Dashboard's effect calls fetchData()
    /\ last' = [op |-> "mount", id |-> 0]
    /\ UNCHANGED <<urlOk, storeVars, staffVars>>

TokenChange(t) ==
    /\ phase = "mounted"
    /\ t # token
    /\ CanStart(t)
    /\ token' = t
    /\ Commit(effect(runCleanup(Cur), t))
    /\ last' = [op |-> "tokenChange", id |-> 0]
    /\ UNCHANGED <<phase, urlOk, storeVars, fetch, staffVars>>

\* The component unmounts: React runs the cleanup and discards the component's
\* state, so no notice is surfaced any more (later setConnectionError calls are
\* dropped); the refs live on in the closures of the handlers.
Unmount ==
    /\ phase = "mounted"
    /\ phase' = "unmounted"
    /\ Commit([runCleanup(Cur) EXCEPT !.eff = NullRef, !.err = NoError])
    /\ last' = [op |-> "unmount", id |-> effectCleanup]   \* the instance torn down
    /\ UNCHANGED <<token, urlOk, storeVars, fetch, staffVars>>

\* The transport opens socket k.
SocketOpen(k) ==
    /\ sockets[k].readyState = CONNECTING
    /\ Commit(onopen([Cur EXCEPT !.sockets[k].readyState = OPEN,
                                 !.sockets[k].events = Append(@, "open")], k))
    /\ last' = [op |-> "open", id |-> k]
    /\ UNCHANGED <<phase, token, urlOk, storeVars, fetch, staffVars>>

\* The connection of socket k fails: one task sets readyState to CLOSED and
\* fires error, then close.
SocketFail(k) ==
    /\ sockets[k].readyState \in {CONNECTING, OPEN, CLOSING}
    /\ Commit(onclose(onerror([Cur EXCEPT !.sockets[k].readyState = CLOSED,
                                          !.sockets[k].events = @ \o <<"error", "close">>],
                              k), k))
    /\ last' = [op |-> "fail", id |-> k]
    /\ UNCHANGED <<phase, token, urlOk, storeVars, fetch, staffVars>>

\* Socket k closes without an error: the server closed it, or the closing
\* handshake started by ws.close() completed.
SocketClose(k) ==
    /\ sockets[k].readyState \in {OPEN, CLOSING}
    /\ Commit(onclose([Cur EXCEPT !.sockets[k].readyState = CLOSED,
                                  !.sockets[k].events = Append(@, "close")], k))
    /\ last' = [op |-> "close", id |-> k]
    /\ UNCHANGED <<phase, token, urlOk, storeVars, fetch, staffVars>>

\* Timer id fires: the browser calls connect of the instance that set it.
TimerFire(id) ==
    /\ timers[id].state = "pending"
    /\ Len(sockets) < MaxSockets
    /\ Commit(connect([Cur EXCEPT !.timers[id].state = "fired"], timers[id].inst))
    /\ last' = [op |-> "timer", id |-> id]
    /\ UNCHANGED <<phase, token, urlOk, storeVars, fetch, staffVars>>

\* A clearError that also clears hasShownErrorRef.
clearErrorResetsFlag ==
    /\ phase = "mounted"
    /\ Commit(setConnectionError([Cur EXCEPT !.shown = FALSE], NoError))
    /\ last' = [op |-> "clearError", id |-> 0]
    /\ UNCHANGED <<phase, token, urlOk, storeVars, fetch, staffVars>>

\* A clearError that also retries: it resets the retry count and calls
\* connect of the current effect instance.
clearErrorReconnects ==
    /\ phase = "mounted"
    /\ Commit(LET h == [setConnectionError(Cur, NoError) EXCEPT !.retry = 0] IN
              IF h.eff # NullRef THEN connect(h, h.eff) ELSE h)
    /\ last' = [op |-> "clearError", id |-> 0]
    /\ UNCHANGED <<phase, token, urlOk, storeVars, fetch, staffVars>>

\* clearError, the function the hook returns (line 148).
clearError ==
    /\ phase = "mounted"
    /\ Commit(setConnectionError(Cur, NoError))
    /\ last' = [op |-> "clearError", id |-> 0]
    /\ UNCHANGED <<phase, token, urlOk, storeVars, fetch, staffVars>>

\* An open socket delivers a frame (frames in flight are still delivered to
\* a socket that is closing).
SocketMessage(k, raw) ==
    /\ sockets[k].readyState \in {OPEN, CLOSING}
    /\ LET after == onmessage(<<requests, feedback>>, raw) IN
       /\ Len(after.store[1]) + Len(after.store[2]) <= MaxItems
       /\ requests' = after.store[1]
       /\ feedback' = after.store[2]
       /\ liveApplied' = (liveApplied \/ after.store # <<requests, feedback>>)
       /\ uncaught' = (uncaught \/ after.uncaught)
    /\ last' = [op |-> "message", id |-> k, raw |-> raw]
    /\ UNCHANGED <<connVars, fetch>>

\* Dashboard's fetchData (lines 22-35): both GETs succeeded.
FetchResolve(requestsRes, feedbackRes) ==
    /\ fetch = "pending"
    /\ Len(requestsRes) + Len(feedbackRes) <= MaxItems
    /\ fetch' = "done"
    /\ requests' = setRequests(requests, requestsRes)
    /\ feedback' = setFeedback(feedback, feedbackRes)
    /\ last' = [op |-> "fetchData", id |-> 0]
    /\ UNCHANGED <<connVars, liveApplied, uncaught, staffVars>>

\* fetchData: a GET failed, the catch block logs it.
FetchReject ==
    /\ fetch = "pending"
    /\ fetch' = "failed"
    /\ last' = [op |-> "fetchFailed", id |-> 0]
    /\ UNCHANGED <<connVars, storeVars, staffVars>>

OpenSockets == {k \in 1..Len(sockets) : sockets[k].readyState = OPEN}

\* The server changes request 1 to version v for another client (PATCH
\* /api/requests/1) and broadcasts the record to the connected socket.
ServerUpdate(v) ==
    /\ v # serverVer
    /\ OpenSockets # {}
    /\ Len(wire) < MaxWire
    /\ serverVer' = v
    /\ wire' = Append(wire, <<"json", "request_updated", [id |-> 1, ver |-> v]>>)
    /\ UNCHANGED <<connVars, storeVars, fetch, patch, last>>

\* The socket delivers the oldest frame in flight to ws.onmessage.
Deliver(k) ==
    /\ wire # <<>>
    /\ SocketMessage(k, Head(wire))
    /\ wire' = Tail(wire)
    /\ UNCHANGED <<serverVer, patch>>

\* handleMarkComplete(request) up to its await (RequestsList.tsx lines 22-26):
\* the button of entry n, shown while its status is not 'Completed', sends
\* the PATCH.
StaffClick(n) ==
    /\ phase = "mounted"
    /\ patch.state \in {"idle", "applied", "failed"}
    /\ requests[n] \in Records
    /\ requests[n].ver # Completed
    /\ patch' = [state |-> "sent", request |-> requests[n], response |-> Undefined]
    /\ last' = [op |-> "click", id |-> n]
    /\ UNCHANGED <<connVars, storeVars, fetch, serverVer, wire>>

\* The server handles the PATCH: it sets the status, answers with the record
\* and broadcasts it.
PatchServe ==
    /\ patch.state = "sent"
    /\ OpenSockets # {}
    /\ Len(wire) < MaxWire
    /\ LET record == [id |-> patch.request.id, ver |-> Completed] IN
       /\ serverVer' = Completed
       /\ patch' = [patch EXCEPT !.state = "served", !.response = record]
       /\ wire' = Append(wire, <<"json", "request_updated", record>>)
    /\ UNCHANGED <<connVars, storeVars, fetch, last>>

\* handleMarkComplete after its await (line 27): the response has arrived and
\* is dispatched; a reducer that throws is caught by the catch block.
PatchResolve ==
    /\ patch.state = "served"
    /\ requests' = IF updateThrows(requests, patch.response)
                   THEN requests
                   ELSE updateRequest(requests, patch.response)
    /\ patch' = [patch EXCEPT !.state = "applied"]
    /\ last' = [op |-> "markComplete", id |-> patch.response.id]
    /\ UNCHANGED <<connVars, feedback, liveApplied, uncaught, fetch, serverVer, wire>>

\* handleMarkComplete: the PATCH failed, the catch block logs it.
PatchReject ==
    /\ patch.state = "sent"
    /\ patch' = [patch EXCEPT !.state = "failed"]
    /\ last' = [op |-> "markFailed", id |-> patch.request.id]
    /\ UNCHANGED <<connVars, storeVars, fetch, serverVer, wire>>

Next ==
    \/ \E t \in TokenValues : Mount(t)
    \/ \E t \in TokenValues : TokenChange(t)
    \/ Unmount
    \/ \E k \in 1..Len(sockets) : SocketOpen(k)
    \/ \E k \in 1..Len(sockets) : SocketFail(k)
    \/ \E k \in 1..Len(sockets) : SocketClose(k)
    \/ \E id \in 1..Len(timers) : TimerFire(id)
    \/ clearError

\* The connection machine.  onmessage reads and writes no ref, no closure
\* variable and no socket, so the store stays idle here.
Spec == Init /\ [][Next]_vars

\* The store under one mounted connection that does not fail: the frames of
\* the live connection against the snapshot fetch.
StoreNext ==
    \/ \E t \in {"a"} : Mount(t)
    \/ Unmount
    \/ \E k \in 1..Len(sockets) : SocketOpen(k)
    \/ \E k \in 1..Len(sockets), raw \in Frames :
          SocketMessage(k, raw) /\ UNCHANGED staffVars
    \/ \E rq, fb \in Snapshots : FetchResolve(rq, fb)
    \/ FetchReject

StoreInit == Init /\ urlOk

StoreSpec == StoreInit /\ [][StoreNext]_vars

\* The connection machine under a fair environment: every pending retry
\* timer eventually fires and the transport eventually reports open or
\* error+close for every attempt.  A socket fails or closes only while there
\* is room for the socket of the retry that follows.
Resolve(k) ==
    \/ SocketOpen(k)
    \/ Len(sockets) < MaxSockets /\ SocketFail(k)

LiveNext ==
    \/ \E t \in {"a"} : Mount(t)
    \/ \E t \in {"b", NullToken} : TokenChange(t)
    \/ Unmount
    \/ \E k \in 1..Len(sockets) : Resolve(k)
    \/ \E k \in 1..Len(sockets) : Len(sockets) < MaxSockets /\ SocketClose(k)
    \/ \E id \in 1..Len(timers) : TimerFire(id)
    \/ clearError

LiveSpec ==
    /\ Init
    /\ [][LiveNext]_vars
    /\ WF_vars(\E id \in 1..Len(timers) : TimerFire(id))
    /\ WF_vars(\E k \in 1..Len(sockets) : Resolve(k))

\* A staff member's action against the live connection: one mounted
\* connection that stays open, the snapshot, the server's broadcasts delivered
\* in the order they were sent, and the PATCH of handleMarkComplete.
StaffNext ==
    \/ \E t \in {"a"} : Mount(t)
    \/ \E k \in 1..Len(sockets) : SocketOpen(k)
    \/ FetchResolve(ServerRequests, <<>>)
    \/ \E v \in Versions : ServerUpdate(v)
    \/ \E k \in OpenSockets : Deliver(k)
    \/ \E n \in 1..Len(requests) : StaffClick(n)
    \/ PatchServe
    \/ PatchResolve
    \/ PatchReject

StaffSpec == StoreInit /\ [][StaffNext]_vars

\* ------------------------------------------------------------------- claims
SocketsOf(i) == {k \in 1..Len(sockets) : sockets[k].inst = i}
PendingTimers == {id \in 1..Len(timers) : timers[id].state = "pending"}
\* Socket k's attempt failed: the transport reported error, then close, and
\* never open.
Failed(k) == sockets[k].events = <<"error", "close">>
\* A fresh instance with a credential, still live, on a url the constructor
\* accepts.
FreshInstance == Len(insts) = 1 /\ ~insts[1].isCleaning /\ urlOk

\* C1: at most one socket created by useWebSocket is open at any moment.
C1_AtMostOneOpenSocket == Cardinality(OpenSockets) <= 1

\* C2: once teardown of an effect instance has begun, no retry timer of that
\* instance is pending (a timer pending at teardown is cancelled), and no step
\* creates a socket or sets a timer for that instance.
C2_NoTimerAfterTeardown ==
    \A id \in PendingTimers : ~insts[timers[id].inst].isCleaning
C2_NothingNewAfterTeardown ==
    /\ \A k \in (Len(sockets) + 1)..Len(sockets') :
          sockets'[k].inst \in 1..Len(insts) => ~insts[sockets'[k].inst].isCleaning
    /\ \A id \in (Len(timers) + 1)..Len(timers') :
          timers'[id].inst \in 1..Len(insts) => ~insts[timers'[id].inst].isCleaning
C2_NoReconnectAfterTeardown ==
    [](C2_NoTimerAfterTeardown) /\ [][C2_NothingNewAfterTeardown]_vars
\* A retry timer was cancelled by a teardown, and the last step delivered the
\* failure or the close of a socket whose instance had been torn down.
C2_Witness ==
    /\ \E id \in 1..Len(timers) : timers[id].state = "cleared"
    /\ last.op \in {"fail", "close"}
    /\ insts[sockets[last.id].inst].isCleaning

\* C3: a fresh instance whose every attempt fails creates exactly
\* MAX_RETRY_ATTEMPTS sockets: when the episode is over (all sockets failed,
\* no retry pending) there are three of them and the notice has been set.
C3_ThreeAttempts ==
    (FreshInstance /\ sockets # <<>> /\ PendingTimers = {}
       /\ \A k \in 1..Len(sockets) : Failed(k))
    => (Len(sockets) = MAX_RETRY_ATTEMPTS /\ hasShownErrorRef)

\* C4: each failed attempt increases RetryCounter by exactly 1: for a fresh
\* instance none of whose sockets has opened, the counter is the number of
\* failed attempts.
C4_FailureAddsOne ==
    (FreshInstance /\ \A k \in 1..Len(sockets) : sockets[k].events \in {<<>>, <<"error", "close">>})
    => retryCountRef = Cardinality({k \in 1..Len(sockets) : Failed(k)})

\* C5: immediately after a socket's open event is handled, RetryCounter is 0,
\* ErrorFlag is false and no notice is surfaced.
C5_OpenResets ==
    last.op = "open" =>
        retryCountRef = 0 /\ ~hasShownErrorRef /\ connectionError = NoError
\* A socket has just opened although the live instance had exhausted its retry
\* budget (two failed attempts, nothing pending).
C5_Witness ==
    /\ last.op = "open"
    /\ \E i \in 1..Len(insts) :
          /\ ~insts[i].isCleaning
          /\ Cardinality({k \in SocketsOf(i) : Failed(k)}) >= 2

\* C6: deliberate teardown never increases RetryCounter: not the unmount
\* itself, and not an error or close event of a socket whose instance has been
\* torn down.
C6_TeardownStep ==
    /\ (phase = "mounted" /\ phase' = "unmounted") => retryCountRef' = retryCountRef
    /\ \A k \in 1..Len(sockets) :
          (insts[sockets[k].inst].isCleaning /\ sockets'[k].events # sockets[k].events)
          => retryCountRef' <= retryCountRef
C6_TeardownNeverIncrements == [][C6_TeardownStep]_vars

\* C7: after the credential changes to a new non-null value, RetryCounter is
\* 0, ErrorFlag is false and a connection attempt with the new credential is
\* under way.
C7_NewCredentialStartsFresh ==
    (last.op = "tokenChange" /\ ~Falsy(token) /\ urlOk) =>
        /\ retryCountRef = 0
        /\ ~hasShownErrorRef
        /\ wsRef # NullRef
        /\ sockets[wsRef].readyState = CONNECTING
        /\ sockets[wsRef].inst = effectCleanup
        /\ insts[effectCleanup].token = token

\* C8: within one effect instance at most one socket is connecting; while
\* one is, a call of connect() creates no socket; and every socket of the
\* instance but its newest has had its close handled.
C8_OneAttemptInFlight ==
    \A i \in 1..Len(insts) :
        LET connecting == {k \in SocketsOf(i) : sockets[k].readyState = CONNECTING} IN
        /\ Cardinality(connecting) <= 1
        /\ connecting # {} => connect(Cur, i).sockets = sockets
        /\ \A k1, k2 \in SocketsOf(i) :
              k1 < k2 => (sockets[k1].readyState = CLOSED
                          /\ sockets[k1].events[Len(sockets[k1].events)] = "close")
\* A retry timer has just fired and created the second socket of an instance.
C8_Witness ==
    /\ last.op = "timer"
    /\ \E k1, k2 \in 1..Len(sockets) :
          /\ k1 < k2
          /\ sockets[k1].inst = sockets[k2].inst
          /\ sockets[k2].readyState = CONNECTING

\* C9: neither collection of the store holds two records with the same
\* identifier.
C9_NoDuplicateIds == NoDuplicateIds(requests) /\ NoDuplicateIds(feedback)

\* C10: the snapshot is applied before any update of the live connection:
\* when setRequests/setFeedback replace the collections, no live frame has
\* changed them yet.
C10_SnapshotBeforeLive == last.op = "fetchData" => ~liveApplied

\* The step delivered a JSON frame of type t to ws.onmessage.
Delivered(t) ==
    last'.op = "message" /\ last'.raw[1] = "json" /\ last'.raw[2] = t
\* The last step delivered a JSON frame of type t.
JustDelivered(t) ==
    last.op = "message" /\ last.raw[1] = "json" /\ last.raw[2] = t
\* after is items with record r put in the place of an entry with r's
\* identifier, or items itself when no entry has it.
ReplacedInPlace(items, after, r) ==
    IF \E n \in 1..Len(items) : Matches(items[n], r.id)
    THEN /\ Len(after) = Len(items)
         /\ \E n \in 1..Len(items) :
               /\ Matches(items[n], r.id)
               /\ after[n] = r
               /\ \A m \in 1..Len(items) : m # n => after[m] = items[m]
    ELSE after = items
\* after is items with x put in front of it.
AddedInFront(items, after, x) ==
    /\ Len(after) = Len(items) + 1
    /\ after[1] = x
    /\ \A n \in 1..Len(items) : after[n + 1] = items[n]

\* C11: a request_updated (feedback_updated) frame whose record's identifier
\* is in the collection replaces that entry in place, length and all other
\* entries unchanged; with an identifier not in the collection it changes
\* nothing.
C11_UpdateStep ==
    /\ (Delivered("request_updated") /\ last'.raw[3] \in Records)
          => (ReplacedInPlace(requests, requests', last'.raw[3]) /\ feedback' = feedback)
    /\ (Delivered("feedback_updated") /\ last'.raw[3] \in Records)
          => (ReplacedInPlace(feedback, feedback', last'.raw[3]) /\ requests' = requests)
C11_UpdateReplacesInPlace == [][C11_UpdateStep]_vars

\* C12: a new_request (new_feedback) frame adds exactly one entry, at the
\* front, and keeps the entries that were there in their order, also when an
\* entry with the same identifier is already there.
C12_AddStep ==
    /\ Delivered("new_request")
          => (AddedInFront(requests, requests', last'.raw[3]) /\ feedback' = feedback)
    /\ Delivered("new_feedback")
          => (AddedInFront(feedback, feedback', last'.raw[3]) /\ requests' = requests)
C12_NewAddsAtFront == [][C12_AddStep]_vars
\* A new_request frame has just put a record in front of an entry with the
\* same identifier.
C12_Witness ==
    /\ JustDelivered("new_request")
    /\ last.raw[3] \in Records
    /\ Len(requests) = 2
    /\ requests[1] = last.raw[3]
    /\ Matches(requests[2], last.raw[3].id)

\* C13: a frame that is not JSON lets no exception out of ws.onmessage and
\* changes neither the connection (socket states, refs, RetryCounter,
\* ErrorFlag, notice) nor the store; the socket can deliver further frames.
C13_TextStep ==
    (last'.op = "message" /\ last'.raw[1] = "text")
        => /\ UNCHANGED <<connVars, requests, feedback>>
           /\ ~uncaught'
           /\ sockets'[last'.id].readyState \in {OPEN, CLOSING}
C13_NonJsonFrameIgnored == [][C13_TextStep]_vars
\* A frame that is not JSON has just been delivered to an open socket, after
\* a frame that filled the store.
C13_Witness ==
    /\ last.op = "message"
    /\ last.raw[1] = "text"
    /\ sockets[last.id].readyState = OPEN
    /\ liveApplied
    /\ requests # <<>>

\* C14: a JSON frame of a type the handler does not know changes neither
\* collection, sets no notice and leaves the connection and RetryCounter as
\* they were.
C14_UnknownStep ==
    (last'.op = "message" /\ last'.raw[1] = "json" /\ last'.raw[2] \notin MessageTypes)
        => UNCHANGED <<connVars, requests, feedback, uncaught>>
C14_UnknownTypeIgnored == [][C14_UnknownStep]_vars
\* A frame of an unknown type has just been delivered while the store held
\* records.
C14_Witness ==
    /\ last.op = "message"
    /\ last.raw[1] = "json"
    /\ last.raw[2] = "unknown_kind"
    /\ sockets[last.id].readyState = OPEN
    /\ requests # <<>>
    /\ feedback # <<>>

\* C15: a frame of a known type whose payload is missing is rejected: it
\* changes no collection, so every entry of both collections is a record
\* with an identifier.
C15_EntriesAreRecords ==
    /\ \A n \in 1..Len(requests) : requests[n] \in Records
    /\ \A n \in 1..Len(feedback) : feedback[n] \in Records

\* C16: the staff-action path and the live path do not diverge: once the
\* response of a staff action has been applied and every broadcast update has
\* been delivered, the stored record has the server's latest version.
C16_PathsConverge ==
    (patch.state = "applied" /\ wire = <<>>) =>
        \A n \in 1..Len(requests) :
            Matches(requests[n], patch.response.id) => requests[n].ver = serverVer

\* C17: within one failure episode (between two open events) the notice goes
\* from none to shown at most once: a step surfaces the notice only by
\* raising ErrorFlag from false to true, and only an open event lowers
\* ErrorFlag again; failed attempts, exhausted connect() calls and dismissals
\* do not.
C17_NoticeStep ==
    /\ (connectionError = NoError /\ connectionError' # NoError)
          => (~hasShownErrorRef /\ hasShownErrorRef')
    /\ (hasShownErrorRef /\ ~hasShownErrorRef') => last'.op = "open"
C17_NoticeOncePerEpisode == [][C17_NoticeStep]_vars
\* The notice was shown and dismissed, and connect() has just been called
\* again with the budget exhausted (by the effect of a new credential)
\* without surfacing it a second time.
C17_Witness ==
    /\ last.op = "tokenChange"
    /\ ~Falsy(token)
    /\ retryCountRef >= MAX_RETRY_ATTEMPTS
    /\ hasShownErrorRef
    /\ connectionError = NoError

\* C18: after a dismissal the notice is none and ErrorFlag is false.
C18_DismissClearsFlag ==
    last.op = "clearError" => (connectionError = NoError /\ ~hasShownErrorRef)

\* C19: a dismissal leaves RetryCounter, the current socket, the in-flight
\* guards and the retry timers as they were, and starts no connection
\* attempt.
C19_DismissStep ==
    last'.op = "clearError" =>
        UNCHANGED <<retryCountRef, wsRef, reconnectTimeoutRef, effectCleanup,
                    insts, sockets, timers>>
C19_DismissOnlyClearsNotice == [][C19_DismissStep]_vars
\* The notice of an exhausted budget has just been dismissed.
C19_Witness ==
    /\ last.op = "clearError"
    /\ phase = "mounted"
    /\ retryCountRef >= MAX_RETRY_ATTEMPTS
    /\ hasShownErrorRef
    /\ connectionError = NoError
    /\ sockets # <<>>

\* C20: teardown is idempotent: in every state, for every effect instance,
\* running its teardown twice leaves the state that running it once leaves
\* (refs, RetryCounter, ErrorFlag, notice, sockets, timers; no socket and no
\* timer is created); and right after an unmount has run the teardown,
\* running it again changes nothing.
C20_TeardownIdempotent ==
    /\ \A i \in 1..Len(insts) : cleanup(cleanup(Cur, i), i) = cleanup(Cur, i)
    /\ (last.op = "unmount" /\ last.id # NullRef) => cleanup(Cur, last.id) = Cur
\* An unmount has just torn down an instance whose socket was open and which
\* had retried before: the socket is closing and a timer of the instance has
\* fired.
C20_Witness ==
    /\ last.op = "unmount"
    /\ last.id # NullRef
    /\ insts[last.id].isCleaning
    /\ wsRef # NullRef
    /\ sockets[wsRef].readyState = CLOSING
    /\ \E id \in 1..Len(timers) : timers[id].inst = last.id

\* C21: after a close that is not part of a teardown the counter has been
\* incremented and a retry is scheduled if and only if it is now below
\* MAX_RETRY_ATTEMPTS; the retry is one new timer with the fixed delay
\* RETRY_DELAY, held in reconnectTimeoutRef; otherwise nothing is scheduled
\* and the notice is surfaced (Failed).
C21_CloseStep ==
    (last'.op \in {"close", "fail"} /\ ~insts[sockets[last'.id].inst].isCleaning) =>
        LET scheduled == Len(timers') > Len(timers) IN
        /\ retryCountRef' > retryCountRef
        /\ scheduled <=> retryCountRef' < MAX_RETRY_ATTEMPTS
        /\ scheduled =>
              /\ Len(timers') = Len(timers) + 1
              /\ timers'[Len(timers')] = [inst |-> sockets[last'.id].inst,
                                          delay |-> RETRY_DELAY, state |-> "pending"]
              /\ reconnectTimeoutRef' = Len(timers')
        /\ ~scheduled =>
              /\ timers' = timers
              /\ hasShownErrorRef'
              /\ connectionError' = ErrorMessage
C22_BackoffGrows ==
    (\A k \in 1..Len(sockets) : \A e \in 1..Len(sockets[k].events) :
         sockets[k].events[e] # "open")
    => \A id1, id2 \in 1..Len(timers) :
           (id1 < id2 /\ timers[id1].inst = timers[id2].inst)
           => timers[id2].delay > timers[id1].delay

\* C23: while the credential is absent (token null or empty) the hook creates
\* no socket, schedules no timer and does not change RetryCounter, ErrorFlag
\* or the notice (a dismissal by the user and the unmount aside).
C23_AbsentStep ==
    (Falsy(token) /\ Falsy(token') /\ phase' = phase /\ last'.op # "clearError") =>
        /\ Len(sockets') = Len(sockets)
        /\ Len(timers') = Len(timers)
        /\ UNCHANGED <<retryCountRef, hasShownErrorRef, connectionError>>
C23_NothingWhileAbsent == [][C23_AbsentStep]_vars

\* C25: the notice is surfaced only when the retry budget is exhausted:
\* whenever connectionError is set, RetryCounter is at least
\* MAX_RETRY_ATTEMPTS and no retry timer is pending.
C25_NoticeOnlyWhenExhausted ==
    connectionError # NoError =>
        (retryCountRef >= MAX_RETRY_ATTEMPTS /\ PendingTimers = {})
\* The notice is up while a later effect instance is live: the budget was
\* used up before the credential changed.
C25_Witness ==
    /\ connectionError = ErrorMessage
    /\ Len(insts) = 2
    /\ ~insts[2].isCleaning
    /\ last.op = "tokenChange"

\* C26: a socket is only created while RetryCounter is below
\* MAX_RETRY_ATTEMPTS, and a call of connect() with the counter at or above
\* the cap (by the effect or by a retry timer) creates no socket and
\* surfaces the notice.
C26_ConnectStep ==
    /\ Len(sockets') > Len(sockets) => retryCountRef < MAX_RETRY_ATTEMPTS
    /\ ((last'.op = "timer" \/ (last'.op \in {"mount", "tokenChange"} /\ ~Falsy(token')))
          /\ retryCountRef >= MAX_RETRY_ATTEMPTS)
         => (sockets' = sockets /\ connectionError' = ErrorMessage)
C26_NoSocketAtCap == [][C26_ConnectStep]_vars

\* C27: at most one retry timer is pending, and a pending timer is the one
\* held in reconnectTimeoutRef (so the one clearTimeout of a teardown
\* cancels every pending retry).
C27_OnePendingTimer ==
    /\ Cardinality(PendingTimers) <= 1
    /\ \A id \in PendingTimers : reconnectTimeoutRef = id
\* The second instance's retry is pending and held in reconnectTimeoutRef,
\* after the teardown of the first instance cancelled the first's retry.
C27_Witness ==
    /\ \E id \in PendingTimers : timers[id].inst = 2 /\ reconnectTimeoutRef = id
    /\ \E id \in 1..Len(timers) : timers[id].inst = 1 /\ timers[id].state = "cleared"

\* C28: after the teardown of an effect instance no event of a socket that
\* instance created changes RetryCounter, ErrorFlag or the notice.
C28_StaleStep ==
    (last'.op \in {"open", "fail", "close"} /\ insts[sockets[last'.id].inst].isCleaning)
        => UNCHANGED <<retryCountRef, hasShownErrorRef, connectionError>>
C28_StaleEventsIgnored == [][C28_StaleStep]_vars

\* The live instance i is in a failure episode: a socket of it has just
\* failed or been closed, or a retry of it is pending (after a failure of a
\* socket or of the constructor).
JustFailed(i) ==
    /\ effectCleanup = i
    /\ \/ last.op \in {"fail", "close"} /\ sockets[last.id].inst = i
       \/ \E id \in PendingTimers : timers[id].inst = i
\* Instance i is connected with RetryCounter 0.
Connected(i) ==
    /\ retryCountRef = 0
    /\ \E k \in 1..Len(sockets) : sockets[k].inst = i /\ sockets[k].readyState = OPEN
\* The notice is surfaced and no retry is pending.
FailedState == connectionError # NoError /\ PendingTimers = {}

\* C24: every failure episode ends: after a connection failure of the live
\* instance, if pending timers fire and the transport resolves every attempt,
\* the instance eventually is connected with RetryCounter 0, or the notice is
\* surfaced with no retry pending, or the instance is torn down.
C24_EpisodeEnds ==
    \A i \in 1..MaxInsts :
        JustFailed(i) ~> (Connected(i) \/ FailedState \/ effectCleanup # i)
\* A socket of the live instance has just opened after an earlier attempt of
\* the same instance failed and was retried.
C24_Witness ==
    /\ last.op = "open"
    /\ sockets[last.id].inst = effectCleanup
    /\ Connected(effectCleanup)
    /\ \E k \in 1..Len(sockets) : sockets[k].inst = effectCleanup /\ Failed(k)

=============================================================================
